---- MODULE Spec2Model ----
(***************************************************************************)
(* A model of ExpiryCheckerApp (src/streamlit_app.py): the schema          *)
(* inference helpers, the per-row classification and the run loop of       *)
(* process_excel_file, as a state machine over one application instance.   *)
(*                                                                         *)
(* Time is counted in minutes from midnight of the day the run's clock     *)
(* shows (day 0).  Column names are strings, matched by substring as the   *)
(* code does.  Cells are null, text or date; text cells stand for text     *)
(* that the date parser does not accept (it coerces them to NaT).          *)
(***************************************************************************)
EXTENDS Integers, Sequences, FiniteSets, TLC

VARIABLES
    app,      \* the instance: [expiring_items, stats]
    pc,       \* "idle" between operations, "sheets" inside the sheet loop
    run,      \* the arguments and clock value of the current (or last) run
    wb,       \* what the workbook reader delivered so far in this run
    ret,      \* what the last process_excel_file call returned ("none" while it runs)
    processed,\* st.session_state.processed: a call of this session has succeeded
    slider,   \* the warning period the sidebar's slider shows
    mail,     \* the notification the last rerun of the script handed to SMTP, if any
    call      \* the last call of a helper made on its own: arguments and result

vars == <<app, pc, run, wb, ret, processed, slider, mail, call>>

(***************************************************************************)
(* Bounds of the model.                                                    *)
(***************************************************************************)
MaxSheets == 2
MaxRows == 2
MaxCols == 4

MinutesPerDay == 24 * 60

(***************************************************************************)
(* Strings.                                                                *)
(***************************************************************************)
UpperChars == "ABCDEFGHIJKLMNOPQRSTUVWXYZ"
LowerChars == "abcdefghijklmnopqrstuvwxyz"

LowerChar(c) ==
    IF \E i \in 1..Len(UpperChars) : SubSeq(UpperChars, i, i) = c
    THEN LET i == CHOOSE j \in 1..Len(UpperChars) : SubSeq(UpperChars, j, j) = c
         IN  SubSeq(LowerChars, i, i)
    ELSE c

RECURSIVE Lower(_)
Lower(s) ==
    IF Len(s) = 0 THEN ""
    ELSE LowerChar(SubSeq(s, 1, 1)) \o Lower(SubSeq(s, 2, Len(s)))

\* Python's  k in s  on strings
Contains(k, s) ==
    \E i \in 1..(Len(s) - Len(k) + 1) : SubSeq(s, i, i + Len(k) - 1) = k

\* for keyword in keywords: if keyword in col_str: ... (any hit)
AnyKeywordIn(keywords, col_str) ==
    \E n \in 1..Len(keywords) : Contains(keywords[n], col_str)

(***************************************************************************)
(* Cells and data frames.                                                  *)
(***************************************************************************)
Null == [k |-> "null"]
Text(v) == [k |-> "text", v |-> v]
Date(t) == [k |-> "date", t |-> t]

NotNa(c) == c.k # "null"

\* str(value)
Str(c) ==
    IF c.k = "text" THEN c.v
    ELSE IF c.k = "date"
         THEN ToString(c.t \div MinutesPerDay) \o " " \o ToString(c.t % MinutesPerDay)
         ELSE "nan"

\* expiry_date.strftime('%Y-%m-%d'): the calendar day, the time of day dropped
StrfDate(t) == ToString(t \div MinutesPerDay)

\* pd.to_datetime(value, errors='coerce') on one cell
ToDatetime(c) == IF c.k = "date" THEN c ELSE Null

ColIdx(df, col) == CHOOSE i \in 1..Len(df.columns) : df.columns[i] = col

Column(df, col) == [r \in 1..Len(df.rows) |-> df.rows[r][ColIdx(df, col)]]

\* df[col].dtype: 'object' for a column holding text, datetime64 for dates
\* (with or without blanks), float64 for a column of blanks
Dtype(df, col) ==
    LET cells == Column(df, col)
    IN  IF \E r \in DOMAIN cells : cells[r].k = "text" THEN "object"
        ELSE IF \E r \in DOMAIN cells : cells[r].k = "date" THEN "datetime64"
        ELSE "float64"

\* df[col] = pd.to_datetime(df[col], errors='coerce')
ConvertColumn(df, col) ==
    LET i == ColIdx(df, col)
    IN  [df EXCEPT !.rows =
            [r \in 1..Len(df.rows) |->
                [c \in 1..Len(df.columns) |->
                    IF c = i THEN ToDatetime(df.rows[r][c]) ELSE df.rows[r][c]]]]

(***************************************************************************)
(* The sheets a workbook may hold                                          *)
(***************************************************************************)
At(day, minute) == Date(day * MinutesPerDay + minute)
Midnight(day) == At(day, 0)

\* Each layout: the header row and the rows a sheet of that layout may hold.
\* No row holds the same text in two cells.
Layouts ==
    { [columns |-> <<"Product", "Lot Location", "Batch", "Expiry Date">>,
       rows    |-> { <<Text("Reagent A"), Text("L1-S2"), Null, Midnight(31)>>,
                     <<Null, Text("L9"), Text("B7"), Null>> }],
      [columns |-> <<"Reagent", "Expiry", "Valid Until">>,
       rows    |-> { <<Text("Buffer"), Midnight(61), Midnight(31)>>,
                     <<Null, Text("N/A"), Midnight(91)>> }],
      [columns |-> <<"Label", "When">>,
       rows    |-> { <<Text("Dye"), At(0, 18 * 60)>>,
                     <<Text("Old"), Midnight(0)>> }] }

\* the headers of the rows handed to extract_additional_info on its own
InfoHeaders == {"Lot", "Batch No", "Lot Location", "Storage", "Notes"}

\* the headers of the data frames handed to detect_item_column on its own
ItemHeaders == {"Item", "Product Name", "Code", "Notes", "Expiry"}

ColumnNames == UNION { { L.columns[i] : i \in 1..Len(L.columns) } : L \in Layouts }
                   \cup {"Product", "Expiry Date"} \cup InfoHeaders \cup ItemHeaders

(***************************************************************************)
(* detect_date_columns                                                     *)
(***************************************************************************)
date_keywords ==
    << "expiry", "expiration", "expire", "expires", "expiring",
       "valid", "validity", "valid until", "valid till",
       "use by", "best before", "shelf life", "due date", "end date", "date" >>

\* Method 2, one column: more than half of the values parse as dates and at
\* least one of them lies after the present instant
LooksLikeDates(df, col, now) ==
    LET temp_series  == [r \in 1..Len(df.rows) |-> ToDatetime(Column(df, col)[r])]
        valid_dates  == Cardinality({r \in DOMAIN temp_series : NotNa(temp_series[r])})
        total_values == Len(df.rows)
        future_dates == Cardinality({r \in DOMAIN temp_series :
                            NotNa(temp_series[r]) /\ temp_series[r].t > now})
    IN  total_values > 0 /\ 2 * valid_dates > total_values /\ future_dates > 0

\* col_str = str(col).lower(); any keyword in col_str -- worked out once for
\* each column name
DateKeywordHit == [col \in ColumnNames |-> AnyKeywordIn(date_keywords, Lower(col))]

DetectDateColumns(df, now) ==
    LET KeywordHit(col) == DateKeywordHit[col]
        ByType(col)     == LooksLikeDates(df, col, now)
        date_columns    == SelectSeq(df.columns, KeywordHit)
    IN  IF date_columns # <<>> THEN date_columns
        ELSE SelectSeq(df.columns, ByType)

(***************************************************************************)
(* detect_item_column                                                      *)
(***************************************************************************)
item_keywords ==
    << "name", "item", "product", "reagent", "chemical", "material", "description" >>

NoColumn == ""      \* None

ItemKeywordHit == [col \in ColumnNames |-> AnyKeywordIn(item_keywords, Lower(col))]

\* Method 1: the first column other than date_col whose name holds a keyword
RECURSIVE ItemByKeyword(_, _, _)
ItemByKeyword(df, date_col, i) ==
    IF i > Len(df.columns) THEN NoColumn
    ELSE LET col == df.columns[i]
         IN  IF col # date_col /\ ItemKeywordHit[col]
             THEN col
             ELSE ItemByKeyword(df, date_col, i + 1)

\* Method 2: range(date_col_idx - 1, -1, -1), the first text column met
RECURSIVE ItemToLeft(_, _)
ItemToLeft(df, i) ==
    IF i < 1 THEN NoColumn
    ELSE IF Dtype(df, df.columns[i]) = "object" THEN df.columns[i]
    ELSE ItemToLeft(df, i - 1)

\* Method 3: the first text column other than date_col
RECURSIVE ItemFirstText(_, _, _)
ItemFirstText(df, date_col, i) ==
    IF i > Len(df.columns) THEN NoColumn
    ELSE LET col == df.columns[i]
         IN  IF col # date_col /\ Dtype(df, col) = "object"
             THEN col
             ELSE ItemFirstText(df, date_col, i + 1)

\* DetectItemColumn that looks left of the date column before it looks for
\* a keyword: C12 must tell the difference
DetectItemColumnLeftFirst(df, date_col) ==
    LET m1 == ItemByKeyword(df, date_col, 1)
        m2 == ItemToLeft(df, ColIdx(df, date_col) - 1)
        m3 == ItemFirstText(df, date_col, 1)
    IN  IF m2 # NoColumn THEN m2
        ELSE IF m1 # NoColumn THEN m1
        ELSE m3

DetectItemColumn(df, date_col) ==
    LET m1 == ItemByKeyword(df, date_col, 1)
        m2 == ItemToLeft(df, ColIdx(df, date_col) - 1)
        m3 == ItemFirstText(df, date_col, 1)
    IN  IF m1 # NoColumn THEN m1
        ELSE IF m2 # NoColumn THEN m2
        ELSE m3

(***************************************************************************)
(* extract_additional_info                                                 *)
(***************************************************************************)
additional_keywords ==
    << [type |-> "lot",      keywords |-> <<"lot", "batch", "lot number", "batch number">>],
       [type |-> "catalog",  keywords |-> <<"catalog", "cat#", "cat no", "catalogue">>],
       [type |-> "quantity", keywords |-> <<"quantity", "qty", "amount", "volume", "vol">>],
       [type |-> "location", keywords |-> <<"location", "storage", "position", "shelf", "cabinet">>],
       [type |-> "supplier", keywords |-> <<"supplier", "vendor", "manufacturer", "company">>] >>

InfoTypes == {additional_keywords[g].type : g \in 1..Len(additional_keywords)}

EmptyInfo == [t \in {} |-> ""]

\* for keyword in keywords: if keyword in col_str -- for each group and each
\* column name
InfoKeywordHit ==
    [g \in 1..Len(additional_keywords) |->
        [col \in ColumnNames |-> AnyKeywordIn(additional_keywords[g].keywords, Lower(col))]]

\* ExtractColumn that leaves a key alone once it is set: C11 must tell the
\* difference
RECURSIVE ExtractColumnKeepFirst(_, _, _, _)
ExtractColumnKeepFirst(info, col, value, g) ==
    IF g > Len(additional_keywords) THEN info
    ELSE LET group == additional_keywords[g]
             hit   == InfoKeywordHit[g][col] /\ group.type \notin DOMAIN info
             info1 == IF hit
                      THEN [t \in DOMAIN info \cup {group.type} |->
                               IF t = group.type THEN Str(value) ELSE info[t]]
                      ELSE info
         IN  ExtractColumnKeepFirst(info1, col, value, g + 1)

\* The loop over additional_keywords.items() for one column: the break
\* leaves the keyword loop of one group, and the next group is tried
RECURSIVE ExtractColumn(_, _, _, _)
ExtractColumn(info, col, value, g) ==
    IF g > Len(additional_keywords) THEN info
    ELSE LET group == additional_keywords[g]
             hit   == InfoKeywordHit[g][col]
             info1 == IF hit
                      THEN [t \in DOMAIN info \cup {group.type} |->
                               IF t = group.type THEN Str(value) ELSE info[t]]
                      ELSE info
         IN  ExtractColumn(info1, col, value, g + 1)

RECURSIVE ExtractFrom(_, _, _, _, _, _)
ExtractFrom(info, row, all_columns, item_col, date_col, i) ==
    IF i > Len(all_columns) THEN info
    ELSE LET col   == all_columns[i]
             value == row[i]
             info1 == IF col = date_col \/ col = item_col THEN info
                      ELSE IF NotNa(value)
                           THEN ExtractColumn(info, col, value, 1)
                           ELSE info
         IN  ExtractFrom(info1, row, all_columns, item_col, date_col, i + 1)

ExtractAdditionalInfo(row, all_columns, item_col, date_col) ==
    ExtractFrom(EmptyInfo, row, all_columns, item_col, date_col, 1)

(***************************************************************************)
(* calculate_urgency                                                       *)
(***************************************************************************)
\* CalculateUrgency with day 30 counted as urgent: C7 must tell the difference
CalculateUrgencyStrict(days_left, warning_days) ==
    IF days_left < 0 THEN "expired"
    ELSE IF days_left < 30 THEN "critical"
    ELSE IF days_left <= 60 THEN "urgent"
    ELSE IF days_left <= warning_days THEN "warning"
    ELSE "info"

CalculateUrgency(days_left, warning_days) ==
    IF days_left < 0 THEN "expired"
    ELSE IF days_left <= 30 THEN "critical"
    ELSE IF days_left <= 60 THEN "urgent"
    ELSE IF days_left <= warning_days THEN "warning"
    ELSE "info"

(***************************************************************************)
(* The instance and one sheet of process_excel_file                        *)
(***************************************************************************)
\* __init__
NewApp ==
    [expiring_items |-> <<>>,
     stats |-> [total_rows |-> 0, sheets_processed |-> 0, items_found |-> 0]]

\* ResetApp that clears the statistics and keeps the items: C4 must tell the
\* difference
ResetAppStatsOnly(a) ==
    [expiring_items |-> a.expiring_items,
     stats |-> [total_rows |-> 0, sheets_processed |-> 0, items_found |-> 0]]

\* the first two statements of process_excel_file
ResetApp(a) ==
    [expiring_items |-> <<>>,
     stats |-> [total_rows |-> 0, sheets_processed |-> 0, items_found |-> 0]]

\* (expiry_date - today).days: timedelta.days rounds towards minus infinity
DaysUntilExpiry(expiry_t, today) == (expiry_t - today) \div MinutesPerDay

\* InWindow without its lower bound: C1 and C7 must tell the difference
InWindowNoLowerBound(days_until_expiry, warning_days) ==
    days_until_expiry <= warning_days

\* if 0 <= days_until_expiry <= warning_days
InWindow(days_until_expiry, warning_days) ==
    0 <= days_until_expiry /\ days_until_expiry <= warning_days

\* for col in df.columns: if col != date_col and pd.notna(row[col])
RECURSIVE FirstNonEmpty(_, _, _, _)
FirstNonEmpty(row, columns, date_col, i) ==
    IF i > Len(columns) THEN "Unknown Item"
    ELSE IF columns[i] # date_col /\ NotNa(row[i]) THEN Str(row[i])
    ELSE FirstNonEmpty(row, columns, date_col, i + 1)

ItemName(df, row, item_col, date_col) ==
    IF item_col # NoColumn /\ NotNa(row[ColIdx(df, item_col)])
    THEN Str(row[ColIdx(df, item_col)])
    ELSE FirstNonEmpty(row, df.columns, date_col, 1)

ItemData(df, row, sheet_name, item_col, date_col, expiry_t, days, warning_days) ==
    [sheet           |-> sheet_name,
     item            |-> ItemName(df, row, item_col, date_col),
     expiry_date     |-> StrfDate(expiry_t),
     days_left       |-> days,
     urgency         |-> CalculateUrgency(days, warning_days),
     additional_info |-> ExtractAdditionalInfo(row, df.columns, item_col, date_col)]

\* Where the exception of a failing sheet is raised
NoFault == [at |-> "none", c |-> 0, r |-> 0]
ReadFault == [at |-> "read", c |-> 0, r |-> 0]
ColFault(k) == [at |-> "col", c |-> k, r |-> 0]
RowFault(k, r) == [at |-> "row", c |-> k, r |-> r]

\* ProcessRow counting a row in total_rows under its first date column only:
\* C5 must tell the difference
ProcessRowCountOnce(f, df, sheet_name, date_col, item_col, r, k, rn, fault) ==
    LET row    == df.rows[r]
        expiry == row[ColIdx(df, date_col)]
        a1     == IF k = 1 THEN [f.app EXCEPT !.stats.total_rows = @ + 1] ELSE f.app
        days   == (expiry.t - rn.today) \div MinutesPerDay
        item   == ItemData(df, row, sheet_name, item_col, date_col,
                           expiry.t, days, rn.warning_days)
    IN  IF ~NotNa(expiry) THEN f
        ELSE IF fault = RowFault(k, r) THEN [app |-> a1, raised |-> TRUE]
        ELSE IF 0 <= days /\ days <= rn.warning_days
             THEN [app |-> [a1 EXCEPT !.expiring_items = Append(@, item),
                                      !.stats.items_found = @ + 1],
                   raised |-> FALSE]
             ELSE [app |-> a1, raised |-> FALSE]

\* ProcessRow counting the item in items_found as soon as the row is met,
\* before the item is built: C13 must tell the difference
ProcessRowCountEarly(f, df, sheet_name, date_col, item_col, r, k, rn, fault) ==
    LET row    == df.rows[r]
        expiry == row[ColIdx(df, date_col)]
        days   == (expiry.t - rn.today) \div MinutesPerDay
        a1     == [f.app EXCEPT !.stats.total_rows = @ + 1,
                                !.stats.items_found =
                                    IF 0 <= days /\ days <= rn.warning_days THEN @ + 1 ELSE @]
        item   == ItemData(df, row, sheet_name, item_col, date_col,
                           expiry.t, days, rn.warning_days)
    IN  IF ~NotNa(expiry) THEN f
        ELSE IF fault = RowFault(k, r) THEN [app |-> a1, raised |-> TRUE]
        ELSE IF 0 <= days /\ days <= rn.warning_days
             THEN [app |-> [a1 EXCEPT !.expiring_items = Append(@, item)],
                   raised |-> FALSE]
             ELSE [app |-> a1, raised |-> FALSE]

\* The body of  for idx, row in df.iterrows()  for row r.  f is the frame
\* [app, raised]; an exception leaves app as it is at that point.
ProcessRow(f, df, sheet_name, date_col, item_col, r, k, rn, fault) ==
    LET row    == df.rows[r]
        expiry == row[ColIdx(df, date_col)]
        a1     == [f.app EXCEPT !.stats.total_rows = @ + 1]
        days   == DaysUntilExpiry(expiry.t, rn.today)
        item   == ItemData(df, row, sheet_name, item_col, date_col,
                           expiry.t, days, rn.warning_days)
    IN  IF ~NotNa(expiry) THEN f
        ELSE IF fault = RowFault(k, r) THEN [app |-> a1, raised |-> TRUE]
        ELSE IF InWindow(days, rn.warning_days)
             THEN [app |-> [a1 EXCEPT !.expiring_items = Append(@, item),
                                      !.stats.items_found = @ + 1],
                   raised |-> FALSE]
             ELSE [app |-> a1, raised |-> FALSE]

RECURSIVE ProcessRows(_, _, _, _, _, _, _, _, _)
ProcessRows(f, df, sheet_name, date_col, item_col, r, k, rn, fault) ==
    IF r > Len(df.rows) \/ f.raised THEN f
    ELSE ProcessRows(ProcessRow(f, df, sheet_name, date_col, item_col, r, k, rn, fault),
                     df, sheet_name, date_col, item_col, r + 1, k, rn, fault)

\* for date_col in date_columns: the k-th date column; the conversion of the
\* column stays in df for the columns after it
RECURSIVE ProcessDateColumns(_, _, _, _, _, _, _)
ProcessDateColumns(f, df, sheet_name, date_columns, k, rn, fault) ==
    IF k > Len(date_columns) \/ f.raised THEN f
    ELSE IF fault = ColFault(k) THEN [f EXCEPT !.raised = TRUE]
    ELSE LET date_col == date_columns[k]
             item_col == DetectItemColumn(df, date_col)
             df1      == ConvertColumn(df, date_col)
             f1       == ProcessRows(f, df1, sheet_name, date_col, item_col, 1, k, rn, fault)
         IN  ProcessDateColumns(f1, df1, sheet_name, date_columns, k + 1, rn, fault)

IsEmpty(df) == Len(df.rows) = 0 \/ Len(df.columns) = 0

\* The try block of one sheet that is not excluded
ProcessSheet(a, df, sheet_name, rn, fault) ==
    LET a1 == [a EXCEPT !.stats.sheets_processed = @ + 1]
        date_columns == DetectDateColumns(df, rn.today)
    IN  IF fault = ReadFault THEN [app |-> a, raised |-> TRUE]
        ELSE IF IsEmpty(df) THEN [app |-> a, raised |-> FALSE]
        ELSE IF date_columns = <<>> THEN [app |-> a1, raised |-> FALSE]
        ELSE ProcessDateColumns([app |-> a1, raised |-> FALSE], df, sheet_name,
                                date_columns, 1, rn, fault)

\* LoopTurn without the test for excluded sheets: C9 must tell the difference
LoopTurnNoExclusion(a, df, sheet_name, rn, fault) ==
    ProcessSheet(a, df, sheet_name, rn, fault)

\* One turn of  for idx, sheet_name in enumerate(sheet_names): an excluded
\* sheet is passed over before it is read
LoopTurn(a, df, sheet_name, rn, fault) ==
    IF sheet_name \in rn.exclude_sheets THEN [app |-> a, raised |-> FALSE]
    ELSE ProcessSheet(a, df, sheet_name, rn, fault)

\* How a sheet's turn ends: normally, by continue, or in the handler
\*   except Exception as e: st.warning(...); continue
\* In each case the loop goes on with what the instance holds by then.
\* EndOfTurn with the failed sheet's work undone: C2 must tell the difference
EndOfTurnRollback(a, f) ==
    [app |-> IF f.raised THEN a ELSE f.app, pc |-> "sheets", ret |-> "none"]

\* EndOfTurn with the exception passed on to the outer handler: C3 must tell
\* the difference
EndOfTurnAbort(a, f) ==
    IF f.raised THEN [app |-> f.app, pc |-> "idle", ret |-> "False"]
    ELSE [app |-> f.app, pc |-> "sheets", ret |-> "none"]

\* a is the instance as the turn found it, f the frame the turn ended with.
EndOfTurn(a, f) == [app |-> f.app, pc |-> "sheets", ret |-> "none"]

(***************************************************************************)
(* The final sort                                                          *)
(***************************************************************************)
\* urgency_order.get(x['urgency'], 999)
UrgencyOrder(u) ==
    CASE u = "expired"  -> 0
      [] u = "critical" -> 1
      [] u = "urgent"   -> 2
      [] u = "warning"  -> 3
      [] u = "info"     -> 4
      [] OTHER          -> 999

\* key(x) < key(y) for the key (urgency_order, days_left)
KeyLess(x, y) ==
    \/ UrgencyOrder(x.urgency) < UrgencyOrder(y.urgency)
    \/ /\ UrgencyOrder(x.urgency) = UrgencyOrder(y.urgency)
       /\ x.days_left < y.days_left

\* InsertSorted putting x in front of the elements of equal key, which makes
\* the sort unstable: C8 must tell the difference
RECURSIVE InsertSortedBeforeEqual(_, _)
InsertSortedBeforeEqual(sorted, x) ==
    IF sorted = <<>> THEN <<x>>
    ELSE IF ~KeyLess(sorted[Len(sorted)], x)
         THEN Append(InsertSortedBeforeEqual(SubSeq(sorted, 1, Len(sorted) - 1), x),
                     sorted[Len(sorted)])
         ELSE Append(sorted, x)

\* x put into a sorted list behind every element whose key is not greater
RECURSIVE InsertSorted(_, _)
InsertSorted(sorted, x) ==
    IF sorted = <<>> THEN <<x>>
    ELSE IF KeyLess(x, sorted[Len(sorted)])
         THEN Append(InsertSorted(SubSeq(sorted, 1, Len(sorted) - 1), x),
                     sorted[Len(sorted)])
         ELSE Append(sorted, x)

\* list.sort(key=...): a stable sort
RECURSIVE SortItems(_)
SortItems(items) ==
    IF items = <<>> THEN <<>>
    ELSE InsertSorted(SortItems(SubSeq(items, 1, Len(items) - 1)), items[Len(items)])

(***************************************************************************)
(* What the session shows and sends                                        *)
(***************************************************************************)
\* the summary metrics of the results page
Metrics(a) ==
    [rows_scanned     |-> a.stats.total_rows,
     sheets_processed |-> a.stats.sheets_processed,
     items_expiring   |-> a.stats.items_found,
     critical         |-> Cardinality({ j \in 1..Len(a.expiring_items) :
                                          a.expiring_items[j].urgency = "critical" })]

\* generate_email_html: the summary block and the table, one line per item
GenerateEmailHtml(a, warning_days) ==
    [warning_period   |-> warning_days,
     total_rows       |-> a.stats.total_rows,
     sheets_processed |-> a.stats.sheets_processed,
     items_expiring   |-> Len(a.expiring_items),
     table            |-> [j \in 1..Len(a.expiring_items) |->
                              [status      |-> a.expiring_items[j].urgency,
                               source      |-> a.expiring_items[j].sheet,
                               item        |-> a.expiring_items[j].item,
                               info        |-> a.expiring_items[j].additional_info,
                               expiry_date |-> a.expiring_items[j].expiry_date,
                               days_left   |-> a.expiring_items[j].days_left]]]

\* send_email: the message built before the SMTP session; sent tells whether
\* the session went through
Message(a, warning_days, sent) ==
    [sent    |-> sent,
     subject |-> Len(a.expiring_items),
     body    |-> GenerateEmailHtml(a, warning_days)]

(***************************************************************************)
(* Inputs: the sheets a workbook may hold, the settings and the clock      *)
(***************************************************************************)
SeqsOfLen(S, n) == [1..n -> S]

\* no data frame: the sheet was not delivered
NoTable == [columns |-> <<>>, rows |-> <<>>]

\* a sheet that holds its header row only
HeaderOnly == [columns |-> <<"Product", "Expiry Date">>, rows |-> <<>>]

\* the data frames read_excel may return, of at most n rows
Tables(n) ==
    {HeaderOnly} \cup
    UNION { { [columns |-> L.columns, rows |-> rs] : rs \in SeqsOfLen(L.rows, m) } :
            L \in Layouts, m \in 1..n }

\* The places of a sheet's processing, after the read, where an exception
\* may be raised: at the start of a date column's turn, or in a row's turn
\* once its date is known to be present.
FaultPoints(df, today) ==
    LET dcs == DetectDateColumns(df, today)
    IN  {NoFault}
        \cup (IF IsEmpty(df) THEN {}
              ELSE { ColFault(k) : k \in 1..Len(dcs) }
                   \cup UNION { { RowFault(k, r) :
                                     r \in { q \in 1..Len(df.rows) :
                                        NotNa(ToDatetime(df.rows[q][ColIdx(df, dcs[k])])) } } :
                                   k \in 1..Len(dcs) })

SheetName(i) == IF i = 2 THEN "Archive" ELSE "Sheet" \o ToString(i)

WarningChoices == {30, 90}            \* the slider: 30..180 in steps of 10
TodayChoices == {0, 14 * 60 + 30}     \* the clock at 00:00 and at 14:30 of day 0
ExcludeChoices == { {}, {"Archive"} }

RowsRead == LET RECURSIVE Sum(_)
                Sum(i) == IF i = 0 THEN 0 ELSE Len(wb[i].df.rows) + Sum(i - 1)
            IN  Sum(Len(wb))

(***************************************************************************)
(* The state machine                                                       *)
(***************************************************************************)
NoMail == [sent |-> "none"]
NoCall == [fn |-> "none"]

Init ==
    /\ app = NewApp
    /\ pc = "idle"
    /\ run = [warning_days |-> 90, exclude_sheets |-> {}, today |-> 0]
    /\ wb = <<>>
    /\ ret = "none"
    /\ processed = FALSE
    /\ slider = 90
    /\ mail = NoMail
    /\ call = NoCall

\* the arguments of a call and the clock it reads
Calls ==
    { [warning_days |-> w, exclude_sheets |-> e, today |-> t] :
      w \in WarningChoices, e \in ExcludeChoices, t \in TodayChoices }

\* process_excel_file up to the sheet loop: the workbook opens
StartRun ==
    /\ pc = "idle"
    /\ run' \in Calls
    /\ app' = ResetApp(app)
    /\ wb' = <<>>
    /\ pc' = "sheets"
    /\ ret' = "none"
    /\ slider' = run'.warning_days
    /\ mail' = NoMail
    /\ UNCHANGED <<processed, call>>

\* process_excel_file when pd.ExcelFile raises: the outer handler
OpenFails ==
    /\ pc = "idle"
    /\ run' \in Calls
    /\ app' = ResetApp(app)
    /\ wb' = <<>>
    /\ ret' = "False"
    /\ slider' = run'.warning_days
    /\ mail' = NoMail
    /\ UNCHANGED <<pc, processed, call>>

NextSheet == SheetName(Len(wb) + 1)

Turn(df, fault, read) ==
    LET f == LoopTurn(app, df, NextSheet, run, fault)
        o == EndOfTurn(app, f)
    IN  /\ app' = o.app
        /\ pc' = o.pc
        /\ ret' = o.ret
        /\ wb' = Append(wb, [name |-> NextSheet, read |-> read, df |-> df, fault |-> fault])
        /\ UNCHANGED <<run, processed, slider, mail, call>>

\* one turn of the sheet loop on an excluded sheet, whatever the sheet holds
SkipSheet ==
    /\ pc = "sheets"
    /\ Len(wb) < MaxSheets
    /\ NextSheet \in run.exclude_sheets
    /\ \E df \in Tables(MaxRows - RowsRead) : Turn(df, NoFault, FALSE)

\* one turn of the sheet loop on a sheet that is read; an exception raised
\* while the sheet is processed ends the turn in the inner handler
ReadSheet ==
    /\ pc = "sheets"
    /\ Len(wb) < MaxSheets
    /\ NextSheet \notin run.exclude_sheets
    /\ \E df \in Tables(MaxRows - RowsRead) :
         \E fault \in FaultPoints(df, run.today) : Turn(df, fault, TRUE)

\* one turn of the sheet loop in which pd.read_excel raises
ReadFails ==
    /\ pc = "sheets"
    /\ Len(wb) < MaxSheets
    /\ NextSheet \notin run.exclude_sheets
    /\ Turn(NoTable, ReadFault, FALSE)

\* after the last sheet (a workbook holds at least one): the sort and the
\* return; the caller notes the success in the session
FinishRun ==
    /\ pc = "sheets"
    /\ Len(wb) >= 1
    /\ app' = [app EXCEPT !.expiring_items = SortItems(@)]
    /\ ret' = "True"
    /\ pc' = "idle"
    /\ processed' = TRUE
    /\ UNCHANGED <<run, wb, slider, mail, call>>

Next == StartRun \/ OpenFails \/ SkipSheet \/ ReadSheet \/ ReadFails \/ FinishRun

Spec == Init /\ [][Next]_vars

(***************************************************************************)
(* The session: between runs the user may move the slider and, once a run  *)
(* has left items on the results page, send the notification               *)
(***************************************************************************)
\* a rerun of the script after the slider was moved, no button pressed
MoveSlider ==
    /\ pc = "idle"
    /\ slider' \in WarningChoices \ {slider}
    /\ mail' = NoMail
    /\ UNCHANGED <<app, pc, run, wb, ret, processed, call>>

\* the Send Email Alert button, shown with the items of a processed
\* session: send_email with the slider's present value
SendEmail ==
    /\ pc = "idle"
    /\ processed
    /\ Len(app.expiring_items) > 0
    /\ \E sent \in {"yes", "no"} : mail' = Message(app, slider, sent)
    /\ UNCHANGED <<app, pc, run, wb, ret, processed, slider, call>>

SessionNext == Next \/ MoveSlider \/ SendEmail

Session == Init /\ [][SessionNext]_vars

(***************************************************************************)
(* The helpers called on their own, once, on every header row of at most   *)
(* MaxCols columns                                                         *)
(***************************************************************************)
\* the header rows of n different names of S
Headers(S, n) ==
    { h \in SeqsOfLen(S, n) : \A i \in 1..n : \A j \in 1..n : i # j => h[i] # h[j] }

\* a row of n cells, each blank or a text that tells its column
InfoRows(n) == { [i \in 1..n |-> IF i \in filled THEN Text("v" \o ToString(i)) ELSE Null] :
                 filled \in SUBSET (1..n) }

\* extract_additional_info(row, all_columns, item_col, date_col)
CallExtractAdditionalInfo ==
    /\ call = NoCall
    /\ \E n \in 1..MaxCols : \E all_columns \in Headers(InfoHeaders, n) :
       \E row \in InfoRows(n) : \E d \in 1..n : \E i \in 0..n :
          /\ i # d
          /\ LET date_col == all_columns[d]
                 item_col == IF i = 0 THEN NoColumn ELSE all_columns[i]
             IN  call' = [fn |-> "extract_additional_info",
                          row |-> row, all_columns |-> all_columns,
                          item_col |-> item_col, date_col |-> date_col,
                          result |-> ExtractAdditionalInfo(row, all_columns, item_col, date_col)]
    /\ UNCHANGED <<app, pc, run, wb, ret, processed, slider, mail>>

\* a data frame of one row of n cells: blank, text or date
ItemRows(n) == SeqsOfLen({Null, Text("x"), Midnight(31)}, n)

\* detect_item_column(df, date_col)
CallDetectItemColumn ==
    /\ call = NoCall
    /\ \E n \in 1..MaxCols : \E columns \in Headers(ItemHeaders, n) :
       \E row \in ItemRows(n) : \E d \in 1..n :
          LET df == [columns |-> columns, rows |-> <<row>>]
          IN  call' = [fn |-> "detect_item_column", df |-> df, date_col |-> columns[d],
                       result |-> DetectItemColumn(df, columns[d])]
    /\ UNCHANGED <<app, pc, run, wb, ret, processed, slider, mail>>

HelperNext == CallExtractAdditionalInfo \/ CallDetectItemColumn

Helpers == Init /\ [][HelperNext]_vars

(***************************************************************************)
(* What the claims speak of                                                *)
(***************************************************************************)
Items == app.expiring_items
Done == pc = "idle" /\ ret = "True"

ItemsOf(name) == { j \in 1..Len(Items) : Items[j].sheet = name }

Excluded(e) == e.name \in run.exclude_sheets
Failed(e) == e.fault # NoFault
FailedPartway(e) == e.fault.at \in {"col", "row"}
\* read, not empty, and processed to its end
Whole(e) == e.read /\ ~IsEmpty(e.df) /\ e.fault = NoFault

\* The (date column, row) pairs of e's sheet whose cell holds a date once
\* the column is converted, each with the instant it holds: k counts the
\* detected date columns, r the rows
Dates(e) ==
    LET dcs == DetectDateColumns(e.df, run.today)
        ix  == [k \in 1..Len(dcs) |-> ColIdx(e.df, dcs[k])]
        all == (1..Len(dcs)) \X (1..Len(e.df.rows))
        in  == { v \in all : e.df.rows[v[2]][ix[v[1]]].k = "date" }
    IN  [v \in in |-> e.df.rows[v[2]][ix[v[1]]].t]

Dated(e) == DOMAIN Dates(e)

\* the pairs whose cell is not blank in the sheet as it was read
NotBlank(e) ==
    LET dcs == DetectDateColumns(e.df, run.today)
        ix  == [k \in 1..Len(dcs) |-> ColIdx(e.df, dcs[k])]
    IN  { v \in (1..Len(dcs)) \X (1..Len(e.df.rows)) : NotNa(e.df.rows[v[2]][ix[v[1]]]) }

\* the pairs whose turn was over before the sheet's exception, if any
Before(v, fault) ==
    CASE fault.at = "none" -> TRUE
      [] fault.at = "read" -> FALSE
      [] fault.at = "col"  -> v[1] < fault.c
      [] fault.at = "row"  -> v[1] < fault.c \/ (v[1] = fault.c /\ v[2] < fault.r)

\* whole days from the clock's instant to the instant t, rounded down
WholeDays(t) == (t - run.today) \div MinutesPerDay

\* calendar days from the clock's day to the day of the instant t
CalendarDays(t) == (t \div MinutesPerDay) - (run.today \div MinutesPerDay)

\* the pairs counted in total_rows: those done, and the one that failed
Scanned(e) ==
    IF ~e.read THEN 0
    ELSE Cardinality({ v \in Dated(e) : Before(v, e.fault) })
         + (IF e.fault.at = "row" THEN 1 ELSE 0)

\* the pairs in the warning window, whether or not the sheet was processed
InWindowPairs(e) ==
    LET d == Dates(e)
    IN  { v \in DOMAIN d : 0 <= WholeDays(d[v]) /\ WholeDays(d[v]) <= run.warning_days }

\* the pairs that became items
Admitted(e) ==
    IF ~e.read THEN {}
    ELSE { v \in InWindowPairs(e) : Before(v, e.fault) }

RECURSIVE SumScanned(_)
SumScanned(i) == IF i = 0 THEN 0 ELSE Scanned(wb[i]) + SumScanned(i - 1)

SheetsCounted == Cardinality({ i \in 1..Len(wb) : wb[i].read /\ ~IsEmpty(wb[i].df) })

\* the rank the claims give each urgency
ClaimedRank(u) ==
    CASE u = "expired" -> 0 [] u = "critical" -> 1 [] u = "urgent" -> 2
      [] u = "warning" -> 3 [] u = "info" -> 4

KeyBefore(x, y) ==
    \/ ClaimedRank(x.urgency) < ClaimedRank(y.urgency)
    \/ ClaimedRank(x.urgency) = ClaimedRank(y.urgency) /\ x.days_left < y.days_left

KeyEqual(x, y) == ~KeyBefore(x, y) /\ ~KeyBefore(y, x)

Sorted(items) ==
    \A i \in 1..Len(items) : \A j \in 1..Len(items) :
        i < j => ~KeyBefore(items[j], items[i])

(***************************************************************************)
(* C1: every item held by the instance has 0 <= days_left <= warning_days, *)
(* warning_days being the warning period of the run that produced it.      *)
(***************************************************************************)
C1_InclusionFilter ==
    \A j \in 1..Len(Items) :
        0 <= Items[j].days_left /\ Items[j].days_left <= run.warning_days

\* a finished run holding an item on each edge of the window
C1_Witness ==
    /\ Done
    /\ \E j \in 1..Len(Items) : Items[j].days_left = run.warning_days
    /\ \E j \in 1..Len(Items) : Items[j].days_left = 0

(***************************************************************************)
(* C2 as claimed: a sheet that raised partway leaves no item and no count  *)
(* behind, so the counters are those of the sheets processed to their end. *)
(***************************************************************************)
C2_PartialResultsDiscarded ==
    Done =>
        /\ \A i \in 1..Len(wb) : FailedPartway(wb[i]) => ItemsOf(wb[i].name) = {}
        /\ app.stats.sheets_processed
              = Cardinality({ i \in 1..Len(wb) : Whole(wb[i]) })

(***************************************************************************)
(* C2 amended: a sheet that raised partway keeps what it had contributed   *)
(* by then: it counts in sheets_processed, the pairs scanned up to and     *)
(* with the failing one count in total_rows, and the items appended before *)
(* the exception stay in expiring_items; nothing after that point is added.*)
(***************************************************************************)
C2_PartialResultsKept ==
    /\ \A i \in 1..Len(wb) :
          FailedPartway(wb[i]) =>
              Cardinality(ItemsOf(wb[i].name)) = Cardinality(Admitted(wb[i]))
    /\ app.stats.sheets_processed = SheetsCounted
    /\ app.stats.total_rows = SumScanned(Len(wb))

\* a finished run in which a sheet failed in a row after an item of it was kept
C2_Witness ==
    /\ Done
    /\ \E i \in 1..Len(wb) :
          /\ wb[i].fault.at = "row"
          /\ ItemsOf(wb[i].name) # {}
          /\ Cardinality(Admitted(wb[i])) < Cardinality(Dated(wb[i]))

(***************************************************************************)
(* C3: a sheet that raises never ends the run: the loop goes on, every     *)
(* later sheet that is neither excluded nor empty is processed (it counts  *)
(* in sheets_processed and its in-window items are in the result), and the *)
(* run ends with the sorted result and returns success.                    *)
(***************************************************************************)
C3_FailureDoesNotAbort ==
    /\ (\E i \in 1..Len(wb) : Failed(wb[i])) => (pc = "sheets" \/ Done)
    /\ \A i \in 1..Len(wb) : \A j \in 1..Len(wb) :
          (i < j /\ Failed(wb[i]) /\ Whole(wb[j])) =>
              Cardinality(ItemsOf(wb[j].name)) = Cardinality(Admitted(wb[j]))
    /\ app.stats.sheets_processed >= Cardinality({ j \in 1..Len(wb) : Whole(wb[j]) })
    /\ (pc = "idle" /\ wb # <<>>) => (ret = "True" /\ Sorted(Items))

\* a finished run whose first sheet failed and whose second gave an item
C3_Witness ==
    /\ Done
    /\ Len(wb) >= 2
    /\ Failed(wb[1])
    /\ Whole(wb[2])
    /\ ItemsOf(wb[2].name) # {}

(***************************************************************************)
(* C4: whatever ran before on the instance, a call leaves the items and    *)
(* the statistics that the same call leaves on a new instance; a call      *)
(* whose workbook does not open returns failure with no item and zero      *)
(* statistics.                                                             *)
(***************************************************************************)
RECURSIVE OnNewInstance(_)
OnNewInstance(i) ==
    IF i = 0 THEN NewApp
    ELSE LoopTurn(OnNewInstance(i - 1), wb[i].df, wb[i].name, run, wb[i].fault).app

C4_NoLeakBetweenRuns ==
    /\ Done => app = [OnNewInstance(Len(wb)) EXCEPT !.expiring_items = SortItems(@)]
    /\ (pc = "idle" /\ ret = "False") => app = NewApp

\* a call whose workbook did not open, made on an instance that an earlier
\* call of the session had run to its end: it returned failure and left no
\* item and zero statistics
C4_Witness ==
    /\ pc = "idle"
    /\ ret = "False"
    /\ processed
    /\ app = NewApp

(***************************************************************************)
(* C5 as claimed: total_rows is the number of (row, detected date column)  *)
(* pairs, over the sheets processed, whose cell in the sheet is not blank. *)
(***************************************************************************)
RECURSIVE SumNotBlank(_)
SumNotBlank(i) ==
    IF i = 0 THEN 0
    ELSE (IF wb[i].read /\ ~IsEmpty(wb[i].df) THEN Cardinality(NotBlank(wb[i])) ELSE 0)
         + SumNotBlank(i - 1)

C5_CountsNonBlankPairs == Done => app.stats.total_rows = SumNotBlank(Len(wb))

(***************************************************************************)
(* C5 amended: total_rows is the number of (row, detected date column)     *)
(* pairs whose cell holds a date after the column's conversion (a blank    *)
(* cell or one that does not parse is not counted), a row counting once    *)
(* for each such column whether or not it is admitted; of a sheet that     *)
(* raises only the pairs reached by then are counted.                      *)
(***************************************************************************)
C5_CountsDatedPairs == app.stats.total_rows = SumScanned(Len(wb))

\* a finished run: one row with dates in two date columns, counted twice,
\* and none of it admitted
C5_Witness ==
    /\ Done
    /\ \E i \in 1..Len(wb) :
          /\ Whole(wb[i])
          /\ Len(wb[i].df.rows) = 1
          /\ Cardinality(Dated(wb[i])) = 2
          /\ Admitted(wb[i]) = {}
    /\ app.stats.total_rows >= 2

(***************************************************************************)
(* C6 as claimed: a row whose expiry date is n calendar days after the     *)
(* clock's today gets days_left = n, and gives an item exactly when        *)
(* 0 <= n <= warning_days.                                                 *)
(***************************************************************************)
InWindowByCalendar(e) ==
    LET d == Dates(e)
    IN  { v \in DOMAIN d : 0 <= CalendarDays(d[v]) /\ CalendarDays(d[v]) <= run.warning_days }

C6_DaysAreCalendarDays ==
    Done =>
        /\ \A j \in 1..Len(Items) :
              Items[j].expiry_date
                 = ToString((run.today \div MinutesPerDay) + Items[j].days_left)
        /\ \A i \in 1..Len(wb) :
              Whole(wb[i]) =>
                  Cardinality(ItemsOf(wb[i].name)) = Cardinality(InWindowByCalendar(wb[i]))

(***************************************************************************)
(* C7: the urgency of every item follows from its days_left: critical for  *)
(* 0..30, urgent for 31..60, warning for 61..warning_days; no item is      *)
(* expired or info.                                                        *)
(***************************************************************************)
C7_UrgencyByDaysLeft ==
    \A j \in 1..Len(Items) :
        LET d == Items[j].days_left
            u == Items[j].urgency
        IN  /\ (0 <= d /\ d <= 30) => u = "critical"
            /\ (31 <= d /\ d <= 60) => u = "urgent"
            /\ (61 <= d /\ d <= run.warning_days) => u = "warning"
            /\ u \in {"critical", "urgent", "warning"}

\* a finished run with an item on the last day of each urgency
C7_Witness ==
    /\ Done
    /\ \E j \in 1..Len(Items) : Items[j].days_left = 30 /\ Items[j].urgency = "critical"
    /\ \E j \in 1..Len(Items) : Items[j].days_left = 60 /\ Items[j].urgency = "urgent"
    /\ \E j \in 1..Len(Items) : Items[j].days_left = 90 /\ Items[j].urgency = "warning"

(***************************************************************************)
(* C8: the run's last step turns the items, held in the order they were    *)
(* found (sheet by sheet, and in a sheet date column by date column, row   *)
(* by row), into their stable sort by (urgency rank, days_left): every     *)
(* item moves behind the items of smaller key and behind the earlier items *)
(* of equal key.                                                           *)
(***************************************************************************)
\* where the stable sort puts element k of acc
SortedPlace(acc, k) ==
    1 + Cardinality({ m \in 1..Len(acc) : KeyBefore(acc[m], acc[k]) })
      + Cardinality({ m \in 1..(k - 1) : KeyEqual(acc[m], acc[k]) })

IsStableSortOf(out, acc) ==
    /\ Len(out) = Len(acc)
    /\ \A k \in 1..Len(acc) : out[SortedPlace(acc, k)] = acc[k]

LexBefore(u, v) == u[1] < v[1] \/ (u[1] = v[1] /\ u[2] < v[2])

RECURSIVE AdmittedUpTo(_)
AdmittedUpTo(i) == IF i = 0 THEN 0 ELSE Cardinality(Admitted(wb[i])) + AdmittedUpTo(i - 1)

\* acc holds the admitted pairs of sheet 1 in the order they are met, then
\* those of sheet 2, and so on
InFoundOrder(acc) ==
    /\ Len(acc) = AdmittedUpTo(Len(wb))
    /\ \A i \in 1..Len(wb) :
          LET adm == Admitted(wb[i])
              d   == Dates(wb[i])
          IN  \A v \in adm :
                 LET place == AdmittedUpTo(i - 1) + 1
                              + Cardinality({ u \in adm : LexBefore(u, v) })
                 IN  /\ acc[place].sheet = wb[i].name
                     /\ acc[place].days_left = WholeDays(d[v])

C8_StableSortByUrgencyThenDays ==
    [][ (pc = "sheets" /\ pc' = "idle") =>
            /\ InFoundOrder(app.expiring_items)
            /\ IsStableSortOf(app'.expiring_items, app.expiring_items)
            /\ Sorted(app'.expiring_items) ]_vars

\* a finished run of three items or more in which the sort moved an item of
\* a later sheet in front of one of an earlier sheet and met two different
\* items of equal key
C8_Witness ==
    /\ Done
    /\ Len(Items) >= 3
    /\ \E a \in 1..Len(Items) : \E b \in 1..Len(Items) :
          a < b /\ Items[a].sheet = SheetName(2) /\ Items[b].sheet = SheetName(1)
    /\ \E a \in 1..Len(Items) : \E b \in 1..Len(Items) :
          a < b /\ KeyEqual(Items[a], Items[b]) /\ Items[a] # Items[b]
    /\ \E a \in 1..Len(Items) : \E b \in 1..Len(Items) :
          Items[a].urgency = "critical" /\ Items[b].urgency = "urgent"

(***************************************************************************)
(* C9: a turn of the loop on a sheet that is excluded, or that has no row, *)
(* leaves the items and the three counters as they were, whatever the      *)
(* sheet holds.                                                            *)
(***************************************************************************)
C9_SkippedSheetLeavesNoTrace ==
    [][ (Len(wb') = Len(wb) + 1
         /\ LET e == wb'[Len(wb')]
            IN  e.name \in run.exclude_sheets \/ (e.read /\ IsEmpty(e.df)))
        => app' = app ]_vars

\* a finished run that passed over an excluded sheet holding a date in the
\* warning window, and that found nothing in it
C9_Witness ==
    /\ Done
    /\ \E i \in 1..Len(wb) :
          /\ wb[i].name \in run.exclude_sheets
          /\ InWindowPairs(wb[i]) # {}
          /\ ItemsOf(wb[i].name) = {}

(***************************************************************************)
(* C10 as claimed: a column sets at most one of the keys lot, catalog,     *)
(* quantity, location, supplier for a row.  No row of the sheets holds the *)
(* same text twice, so two keys of one item never hold the same value.     *)
(***************************************************************************)
C10_OneKeyPerColumn ==
    \A j \in 1..Len(Items) :
        LET info == Items[j].additional_info
        IN  \A t1 \in DOMAIN info : \A t2 \in DOMAIN info :
                t1 # t2 => info[t1] # info[t2]

(***************************************************************************)
(* C11: in extract_additional_info, the value kept under an info key is    *)
(* that of the last column in table order, neither the item nor the date   *)
(* column, whose name matches the key and whose cell is not blank: of two  *)
(* such columns the later one wins, and a blank cell in a later matching   *)
(* column leaves the earlier value; a key no such column writes is absent. *)
(***************************************************************************)
\* the columns of call c, neither item nor date column, whose name holds a
\* keyword of group g
Matching(c, g) ==
    { i \in 1..Len(c.all_columns) :
        /\ c.all_columns[i] \notin {c.item_col, c.date_col}
        /\ InfoKeywordHit[g][c.all_columns[i]] }

Last(S) == CHOOSE i \in S : \A j \in S : j <= i

C11_LastWriteWins ==
    call.fn = "extract_additional_info" =>
        \A g \in 1..Len(additional_keywords) :
            LET t       == additional_keywords[g].type
                writers == { i \in Matching(call, g) : NotNa(call.row[i]) }
            IN  IF writers = {} THEN t \notin DOMAIN call.result
                ELSE /\ t \in DOMAIN call.result
                     /\ call.result[t] = Str(call.row[Last(writers)])

\* a call with three columns matching one key: two hold a value and the
\* last is blank, and the key holds the value of the second
C11_Witness ==
    /\ call.fn = "extract_additional_info"
    /\ \E g \in 1..Len(additional_keywords) :
       \E i \in Matching(call, g) : \E j \in Matching(call, g) : \E k \in Matching(call, g) :
          /\ i < j /\ j < k
          /\ NotNa(call.row[i]) /\ NotNa(call.row[j]) /\ ~NotNa(call.row[k])
          /\ call.result[additional_keywords[g].type] = Str(call.row[j])
          /\ Str(call.row[j]) # Str(call.row[i])

(***************************************************************************)
(* C12: detect_item_column returns the first column in table order, other  *)
(* than the date column, whose name holds an item keyword; failing that    *)
(* the text column nearest to the left of the date column; failing that    *)
(* the first text column in table order other than the date column;        *)
(* failing that none.  A keyword column wins over a text column that sits  *)
(* right before the date column.                                           *)
(***************************************************************************)
First(S) == CHOOSE i \in S : \A j \in S : i <= j

\* column i of the data frame holds text
TextTyped(df, i) == \E r \in 1..Len(df.rows) : df.rows[r][i].k = "text"

C12_ItemColumnStrategies ==
    call.fn = "detect_item_column" =>
        LET df      == call.df
            cols    == df.columns
            d       == CHOOSE i \in 1..Len(cols) : cols[i] = call.date_col
            others  == (1..Len(cols)) \ {d}
            keyword == { i \in others : ItemKeywordHit[cols[i]] }
            left    == { i \in 1..(d - 1) : TextTyped(df, i) }
            text    == { i \in others : TextTyped(df, i) }
        IN  call.result =
                IF keyword # {} THEN cols[First(keyword)]
                ELSE IF left # {} THEN cols[Last(left)]
                ELSE IF text # {} THEN cols[First(text)]
                ELSE NoColumn

\* a call in which a text column without keyword sits right before the date
\* column, two keyword columns follow the date column, and the first of the
\* two is returned
C12_Witness ==
    /\ call.fn = "detect_item_column"
    /\ LET cols == call.df.columns
           d    == CHOOSE i \in 1..Len(cols) : cols[i] = call.date_col
       IN  /\ d > 1
           /\ TextTyped(call.df, d - 1)
           /\ ~ItemKeywordHit[cols[d - 1]]
           /\ \E i \in (d + 1)..Len(cols) : \E j \in (i + 1)..Len(cols) :
                 /\ ItemKeywordHit[cols[i]] /\ ItemKeywordHit[cols[j]]
                 /\ call.result = cols[i]

(***************************************************************************)
(* C13: between operations (after construction and after every return of   *)
(* process_excel_file, failing sheets or not) items_found is the length of *)
(* expiring_items, so the metric of the results page, the summary of the   *)
(* notification and its subject show the same number.                      *)
(***************************************************************************)
C13_ItemsFoundIsLength ==
    pc = "idle" =>
        /\ app.stats.items_found = Len(app.expiring_items)
        /\ Metrics(app).items_expiring = Message(app, slider, "yes").body.items_expiring
        /\ Metrics(app).items_expiring = Message(app, slider, "yes").subject

\* a finished run that kept two items or more and in which a sheet failed
\* on a row that lay in the warning window
C13_Witness ==
    /\ Done
    /\ Len(Items) >= 2
    /\ \E i \in 1..Len(wb) :
          /\ wb[i].fault.at = "row"
          /\ <<wb[i].fault.c, wb[i].fault.r>> \in InWindowPairs(wb[i])

(***************************************************************************)
(* C14 as claimed: whatever the slider moves, runs and sends of a session, *)
(* every notification generated lists only items whose days_left is at     *)
(* most the warning period printed in its summary.                         *)
(***************************************************************************)
C14_ListedWithinPrintedPeriod ==
    mail # NoMail =>
        \A j \in DOMAIN mail.body.table :
            mail.body.table[j].days_left <= mail.body.warning_period

====
